---- MODULE Spec2Model ----
(***************************************************************************)
(* The gate coordinator of simplified-concurrency.                         *)
(*                                                                         *)
(* The repository holds two coordinators:                                  *)
(*   - the two-queue coordinator (src/unnamed/part_001): blockingCalls,    *)
(*     deferredBlocks, deferredResponses; specification Spec;              *)
(*   - the single-queue coordinator (src/concurrency.ts): blockingCalls,   *)
(*     callsJustBlocked, deferred, call; specification SpecSQ.             *)
(* SpecCounter and SpecCounterSQ run the counter scenario of                *)
(* src/concurrency.spec.ts (Storage, getUniqueNumber) on each of them.     *)
(*                                                                         *)
(* JavaScript runs one job at a time.  A promise reaction (the callback of *)
(* then/finally, the continuation of an await) is a job of the microtask   *)
(* queue, which is FIFO; `microtasks` holds the coordinator's own jobs.    *)
(* The callers' code is arbitrary: a call of a wrapped function or the     *)
(* settlement of an operation's promise may come between any two jobs.     *)
(***************************************************************************)
EXTENDS Naturals, Sequences, FiniteSets

\* ------------------------------------------------------------------ bounds
MaxCalls == 3

MaxResets == 1

\* Operations that fail.
MaxFailures == 1

\* The callers' code runs in turns: a task (a timer, an I/O event), which starts
\* when the microtask queue is empty, or a microtask of their own between two
\* jobs of the coordinator.  At most MaxInterleaved turns are of the second sort.
MaxInterleaved == 1

\* afterAll: for (let i = 0; i < 10; i++) await tick();
Yields == 10

\* The counter scenario: back-to-back calls of getUniqueNumber.  Each takes
\* three ids: the call, its storage.get and its storage.put.
MaxN == 3

\* Suspensions of a body between the finally callback of its awaited blocking
\* call and its own continuation (the promise blockWhile/blockFor returned
\* settles after the callback registered on the operation's promise).
Hops == 2

MaxIds == IF MaxCalls > 3 * MaxN THEN MaxCalls ELSE 3 * MaxN

Ids == 1..MaxIds

Kinds == {"blocking", "blockable", "blockableResponse"}

\* How a blockable target behaves when invoked: it returns a pending promise
\* ("async"), starts a blocking-wrapped operation before its first await
\* ("blocks"), or throws before returning a promise ("throws").
Modes == {"async", "blocks", "throws"}

VARIABLES
  n,                 \* calls issued so far; call ids are 1..n, in issue order
  kind,              \* kind[c]: which wrapper call c went through
  mode,              \* mode[c]: behaviour of the target of a blockable call
  parent,            \* parent[c]: the call whose body started blocking call c (0: other code)
  op,                \* op[c]: state of the promise target.apply returned
  resp,              \* resp[c]: state of the promise the wrapper returned to the caller
  outcome,           \* outcome[c]: how the caller's promise settled
  ran,               \* ran[c]: times the target of call c was invoked
  viaQueue,          \* history: call c was pushed on the queue as a deferred invocation
  respQueued,        \* history: the result of call c was pushed on the queue as a deferred response
  blockingCalls,     \* Set of the handles of the blocking calls in progress
  deferredBlocks,    \* part_001: queue of deferred invocations (call ids)
  deferredResponses, \* part_001: queue of deferred response resolvers (call ids)
  deferred,          \* concurrency.ts: the one queue of deferred thunks
  callsJustBlocked,  \* concurrency.ts: Map from handle to the promise (call id) blocked for
  call,              \* concurrency.ts: the handle counter
  handle,            \* concurrency.ts: handle[c] is thisCall of the blockFor of call c
  waiting,           \* concurrency.ts: waiting[c]: the promises of outputGate's Promise.all
  microtasks,        \* FIFO of the coordinator's pending promise reactions
  inTurn,            \* the callers' code is running in front of pending jobs (its turn is not over)
  interleaved,       \* turns of the callers taken between two jobs of the coordinator
  resets,            \* history: times reset() was called
  cache,             \* counter scenario: Storage.cache.get('counter'); 0: no entry
  got,               \* counter scenario: got[c]: what storage.get returned to call c
  val,               \* counter scenario: val[c]: the value call c returns; 0: none yet
  inProgressAtReturn, \* history: the blocking calls of call c still pending when its promise settled
  second,            \* the state of a second coordinator made by the factory (a record as State)
  order              \* two coordinators: the instance of each pending job, in the order of the one microtask queue

vars == <<n, kind, mode, parent, op, resp, outcome, ran, viaQueue, respQueued,
          blockingCalls, deferredBlocks, deferredResponses, deferred, callsJustBlocked,
          call, handle, waiting, microtasks, inTurn, interleaved, resets,
          cache, got, val, inProgressAtReturn, second, order>>

\* The variables of the first coordinator and of its callers.
instanceVars == <<n, kind, mode, parent, op, resp, outcome, ran, viaQueue, respQueued,
                  blockingCalls, deferredBlocks, deferredResponses, deferred, callsJustBlocked,
                  call, handle, waiting, microtasks, inTurn, interleaved, resets,
                  cache, got, val, inProgressAtReturn>>

\* The state as a record, so that a handler that calls other handlers is the
\* composition of their operators.
State ==
  [n |-> n, kind |-> kind, mode |-> mode, parent |-> parent, op |-> op,
   resp |-> resp, outcome |-> outcome, ran |-> ran, viaQueue |-> viaQueue,
   respQueued |-> respQueued,
   blockingCalls |-> blockingCalls, deferredBlocks |-> deferredBlocks,
   deferredResponses |-> deferredResponses, deferred |-> deferred,
   callsJustBlocked |-> callsJustBlocked, call |-> call, handle |-> handle,
   waiting |-> waiting, microtasks |-> microtasks, inTurn |-> inTurn,
   interleaved |-> interleaved, resets |-> resets,
   cache |-> cache, got |-> got, val |-> val,
   inProgressAtReturn |-> inProgressAtReturn]

Holds(s) ==
  /\ n = s.n
  /\ kind = s.kind
  /\ mode = s.mode
  /\ parent = s.parent
  /\ op = s.op
  /\ resp = s.resp
  /\ outcome = s.outcome
  /\ ran = s.ran
  /\ viaQueue = s.viaQueue
  /\ respQueued = s.respQueued
  /\ blockingCalls = s.blockingCalls
  /\ deferredBlocks = s.deferredBlocks
  /\ deferredResponses = s.deferredResponses
  /\ deferred = s.deferred
  /\ callsJustBlocked = s.callsJustBlocked
  /\ call = s.call
  /\ handle = s.handle
  /\ waiting = s.waiting
  /\ microtasks = s.microtasks
  /\ inTurn = s.inTurn
  /\ interleaved = s.interleaved
  /\ resets = s.resets
  /\ cache = s.cache
  /\ got = s.got
  /\ val = s.val
  /\ inProgressAtReturn = s.inProgressAtReturn

CommitInstance(s) ==
  /\ n' = s.n
  /\ kind' = s.kind
  /\ mode' = s.mode
  /\ parent' = s.parent
  /\ op' = s.op
  /\ resp' = s.resp
  /\ outcome' = s.outcome
  /\ ran' = s.ran
  /\ viaQueue' = s.viaQueue
  /\ respQueued' = s.respQueued
  /\ blockingCalls' = s.blockingCalls
  /\ deferredBlocks' = s.deferredBlocks
  /\ deferredResponses' = s.deferredResponses
  /\ deferred' = s.deferred
  /\ callsJustBlocked' = s.callsJustBlocked
  /\ call' = s.call
  /\ handle' = s.handle
  /\ waiting' = s.waiting
  /\ microtasks' = s.microtasks
  /\ inTurn' = s.inTurn
  /\ interleaved' = s.interleaved
  /\ resets' = s.resets
  /\ cache' = s.cache
  /\ got' = s.got
  /\ val' = s.val
  /\ inProgressAtReturn' = s.inProgressAtReturn

\* A step of the one coordinator: the second one is not involved.
Commit(s) == CommitInstance(s) /\ UNCHANGED <<second, order>>

Job(t, c, i) == [t |-> t, c |-> c, i |-> i]

Enqueue(s, job) == [s EXCEPT !.microtasks = Append(@, job)]

\* The caller's promise settles.
DeliverAs(s, c, o) == [s EXCEPT !.resp[c] = "delivered", !.outcome[c] = o]

\* The caller's promise settles as the operation's own promise did; a target
\* that threw counts as a rejection.
Deliver(s, c) == DeliverAs(s, c, IF s.op[c] = "fulfilled" THEN "fulfilled" ELSE "rejected")

\* The state of a new coordinator (either file), lines 4-8.
NewCoordinator ==
  [n |-> 0,
   kind |-> [c \in Ids |-> "none"],
   mode |-> [c \in Ids |-> "async"],
   parent |-> [c \in Ids |-> 0],
   op |-> [c \in Ids |-> "notStarted"],
   resp |-> [c \in Ids |-> "none"],
   outcome |-> [c \in Ids |-> "none"],
   ran |-> [c \in Ids |-> 0],
   viaQueue |-> [c \in Ids |-> FALSE],
   respQueued |-> [c \in Ids |-> FALSE],
   blockingCalls |-> {},
   deferredBlocks |-> <<>>,
   deferredResponses |-> <<>>,
   deferred |-> <<>>,
   callsJustBlocked |-> {},
   call |-> 0,
   handle |-> [c \in Ids |-> 0],
   waiting |-> [c \in Ids |-> {}],
   microtasks |-> <<>>,
   inTurn |-> FALSE,
   interleaved |-> 0,
   resets |-> 0,
   cache |-> 0,
   got |-> [c \in Ids |-> 0],
   val |-> [c \in Ids |-> 0],
   inProgressAtReturn |-> [c \in Ids |-> {}]]

NewCall(s, c, k, m, p) ==
  [s EXCEPT !.n = c, !.kind[c] = k, !.mode[c] = m, !.parent[c] = p]

\* ------------------------------------------------- two-queue coordinator
\* src/unnamed/part_001

\* afterAll(): the number of times the caller is suspended before it goes on.
afterAll == Yields

\* process(): the call itself only reaches `await afterAll()`.
process(s) == Enqueue(s, Job("process", 0, afterAll))

\* blockWhile(promise): add the handle; the finally callback runs when the
\* promise settles (job "unblock").
blockWhile(s, c) == [s EXCEPT !.blockingCalls = @ \cup {c}]

\* Mutant: blockWhile registers its callback with then(), for successes only.
blockWhileThenOnly(s, c) ==
  IF s.op[c] = "rejected" THEN s
  ELSE LET d == [s EXCEPT !.blockingCalls = @ \ {c}]
       IN  IF d.blockingCalls = {} THEN Enqueue(d, Job("process", 0, afterAll)) ELSE d

\* The finally callback of blockWhile.
blockWhileFinally(s, c) ==
  LET d == [s EXCEPT !.blockingCalls = @ \ {c}]
  IN  IF d.blockingCalls = {} THEN process(d) ELSE d

\* Mutant: a blocking call made while the active set is non-empty is queued
\* as a blockable call is.
blockingDeferred(s, c) ==
  IF s.blockingCalls = {}
  THEN blockWhile([s EXCEPT !.op[c] = "pending", !.ran[c] = @ + 1], c)
  ELSE [s EXCEPT !.deferredBlocks = Append(@, c), !.viaQueue[c] = TRUE]

\* blocking(target)(...args): blockWhile(target.apply(this, args)).
blocking(s, c) == blockWhile([s EXCEPT !.op[c] = "pending", !.ran[c] = @ + 1], c)

\* The promise of the storage.get of call c has resolved: the finally callback
\* of blockWhile is a job, and after it the continuation of the body.
getSettled(s, c) ==
  Enqueue(Enqueue([s EXCEPT !.op[c + 1] = "fulfilled"], Job("unblock", c + 1, 0)),
          Job("resume", c, Hops))

\* Storage.get('counter') through @blocking, called by the body of call c: a
\* cached value is returned at once, else 0 when a timer fires.
storageGet(s, c) ==
  LET g == blocking([s EXCEPT !.got[c] = s.cache], c + 1)
  IN  IF s.cache # 0 THEN getSettled(g, c) ELSE g

\* Storage.put('counter', value) through @blocking: the cache is set at once,
\* the promise resolves when a timer fires.
storagePut(s, c, value) == blocking([s EXCEPT !.cache = value], c + 2)

\* getUniqueNumber() after its await, with i suspensions left:
\*   val = (val || 0) + 1; this.storage.put('counter', val); return val;
getUniqueNumberResume(s, c, i) ==
  IF i > 1 THEN Enqueue(s, Job("resume", c, i - 1))
  ELSE LET v == s.got[c] + 1
           p == storagePut([s EXCEPT !.val[c] = v], c, v)
       IN  Enqueue([p EXCEPT !.op[c] = "fulfilled"], Job("gate", c, 0))

\* target.apply(thisArg, args) of a blockable call.
targetApply(s, c) ==
  LET r == [s EXCEPT !.ran[c] = @ + 1]
  IN  CASE s.mode[c] = "throws" -> [r EXCEPT !.op[c] = "threw"]
        [] s.mode[c] = "blocks" -> blocking([r EXCEPT !.op[c] = "pending"], c + 1)
        [] s.mode[c] = "counter" -> storageGet([r EXCEPT !.op[c] = "pending"], c)
        [] OTHER -> [r EXCEPT !.op[c] = "pending"]

\* blockResponse(promise): promise.finally(...) is registered; the callback
\* runs when the promise settles (job "gate").
blockResponse(s, c) == [s EXCEPT !.resp[c] = "pending"]

\* Mutant: the finally callback of blockResponse defers in every gate state.
blockResponseFinallyAlwaysDefers(s, c) ==
  [s EXCEPT !.deferredResponses = Append(@, c), !.resp[c] = "queued", !.respQueued[c] = TRUE]

\* The finally callback of blockResponse:
\*   blockingCalls.size ? new Promise(r => deferredResponses.push(r)) : Promise.resolve()
\* finally passes the promise's own outcome on once the callback's promise resolves.
blockResponseFinally(s, c) ==
  IF s.blockingCalls # {}
  THEN [s EXCEPT !.deferredResponses = Append(@, c), !.resp[c] = "queued",
                 !.respQueued[c] = TRUE]
  ELSE Deliver(s, c)

\* Mutant: blockFunction puts the deferred call at the front of the queue.
blockFunctionUnshift(s, c) ==
  IF s.blockingCalls = {}
  THEN LET a == targetApply(s, c)
       IN  IF a.op[c] = "threw" THEN Deliver(a, c) ELSE blockResponse(a, c)
  ELSE [s EXCEPT !.deferredBlocks = <<c>> \o @, !.viaQueue[c] = TRUE]

\* Mutant: blockFunction without its test of blockingCalls.size.
blockFunctionNoGate(s, c) ==
  LET a == targetApply(s, c)
  IN  IF a.op[c] = "threw" THEN Deliver(a, c) ELSE blockResponse(a, c)

\* blockFunction(target, args, thisArg), an async function: a throw of target
\* rejects the promise it returned.
blockFunction(s, c) ==
  IF s.blockingCalls = {}
  THEN LET a == targetApply(s, c)
       IN  IF a.op[c] = "threw" THEN Deliver(a, c) ELSE blockResponse(a, c)
  ELSE [s EXCEPT !.deferredBlocks = Append(@, c), !.viaQueue[c] = TRUE]

\* blockable(target)(...args): blockFunction(target, args, this).
blockable(s, c) == blockFunction(s, c)

\* Mutant: blockableResponse defers the call as blockable does.
blockableResponseDeferred(s, c) ==
  IF s.blockingCalls = {}
  THEN blockResponse([s EXCEPT !.op[c] = "pending", !.ran[c] = @ + 1], c)
  ELSE [s EXCEPT !.deferredBlocks = Append(@, c)]

\* blockableResponse(target)(...args): blockResponse(target.apply(this, args)).
blockableResponse(s, c) ==
  blockResponse([s EXCEPT !.op[c] = "pending", !.ran[c] = @ + 1], c)

\* A thunk of deferredBlocks:
\*   () => blockResponse(target.apply(thisArg, args)).then(resolve, reject)
deferredBlockThunk(s, c) ==
  LET a == targetApply(s, c)
  IN  IF a.op[c] = "threw" THEN a ELSE blockResponse(a, c)

\* The queue the loop of process() takes from.
processPick(s) == IF s.deferredResponses # <<>> THEN "responses" ELSE "blocks"

\* Mutant: the loop of process() takes the last deferred response (pop()).
processPop(s) ==
  IF processPick(s) = "responses"
  THEN LET c == s.deferredResponses[Len(s.deferredResponses)]
       IN  Enqueue(Deliver([s EXCEPT !.deferredResponses = SubSeq(@, 1, Len(@) - 1)], c),
                   Job("process", 0, afterAll))
  ELSE LET c == Head(s.deferredBlocks)
           a == deferredBlockThunk([s EXCEPT !.deferredBlocks = Tail(@)], c)
       IN  IF a.op[c] = "threw" THEN a ELSE Enqueue(a, Job("process", 0, afterAll))

\* The body of the while loop of process(), entered when its condition holds:
\*   (deferredResponses.length ? deferredResponses : deferredBlocks).shift()!();
\*   await afterAll();
\* A thunk that throws ends the async function process.
processShift(s) ==
  IF processPick(s) = "responses"
  THEN LET c == Head(s.deferredResponses)
       IN  Enqueue(Deliver([s EXCEPT !.deferredResponses = Tail(@)], c),
                   Job("process", 0, afterAll))
  ELSE LET c == Head(s.deferredBlocks)
           a == deferredBlockThunk([s EXCEPT !.deferredBlocks = Tail(@)], c)
       IN  IF a.op[c] = "threw" THEN a ELSE Enqueue(a, Job("process", 0, afterAll))

\* Mutant: the loop of process() without its test of blockingCalls.size.
processConditionNoGate(s) == s.deferredResponses # <<>> \/ s.deferredBlocks # <<>>

\* The condition of the while loop of process().
processCondition(s) ==
  s.blockingCalls = {} /\ (s.deferredResponses # <<>> \/ s.deferredBlocks # <<>>)

\* process() resumed after an `await tick()` with i suspensions of its
\* afterAll left (this one included).
processResume(s, i) ==
  IF i > 1 THEN Enqueue(s, Job("process", 0, i - 1))
  ELSE IF processCondition(s) THEN processShift(s) ELSE s

\* History: a wait of process() during which the active set was non-empty at
\* some time is marked, as a job "processStale"; it runs as a job "process".
processStep(s, j) ==
  IF j.t = "processStale" /\ j.i > 1 THEN Enqueue(s, Job("processStale", 0, j.i - 1))
  ELSE processResume(s, j.i)

\* History: with the active set non-empty, every pending wait of process() is
\* marked.
MarkStale(s) ==
  IF s.blockingCalls = {} THEN s
  ELSE [s EXCEPT !.microtasks =
          [k \in 1..Len(@) |-> IF @[k].t = "process" THEN [@[k] EXCEPT !.t = "processStale"]
                                ELSE @[k]]]

\* Mutant: reset() leaves the active set as it is.
resetKeepsActiveSet(s) ==
  [s EXCEPT !.deferredResponses = <<>>, !.deferredBlocks = <<>>, !.resets = @ + 1]

\* reset()
reset(s) ==
  [s EXCEPT !.blockingCalls = {}, !.deferredResponses = <<>>, !.deferredBlocks = <<>>,
            !.resets = @ + 1]

\* ------------------------------------------------ single-queue coordinator
\* src/concurrency.ts

\* callsJustBlocked.delete(h)
mapDelete(m, h) == {e \in m : e[1] # h}

\* callsJustBlocked.set(h, c)
mapSet(m, h, c) == mapDelete(m, h) \cup {<<h, c>>}

\* The sync part of blockFor(promise), up to `await promise`; the callback of
\* afterAll().then(...) is the job "expire".
blockFor(s, c) ==
  LET thisCall == s.call + 1
  IN  Enqueue([s EXCEPT !.call = thisCall,
                        !.handle[c] = thisCall,
                        !.blockingCalls = @ \cup {thisCall},
                        !.callsJustBlocked = mapSet(@, thisCall, c)],
              Job("expire", thisCall, afterAll))

\* afterAll().then(() => callsJustBlocked.delete(thisCall)), resumed with i
\* suspensions of afterAll left.
expire(s, thisCall, i) ==
  IF i > 1 THEN Enqueue(s, Job("expire", thisCall, i - 1))
  ELSE [s EXCEPT !.callsJustBlocked = mapDelete(@, thisCall)]

\* Promise.all(promises).then(() => result) of outputGate: it rejects with the
\* failure of one of the promises, and fulfils once all of them have.
promiseAll(s) ==
  LET failed(c) == \E b \in s.waiting[c] : s.op[b] = "rejected"
      done(c) == \A b \in s.waiting[c] : s.op[b] = "fulfilled"
      settles(c) == s.resp[c] = "gated" /\ (failed(c) \/ done(c))
  IN  [s EXCEPT !.resp = [c \in Ids |-> IF settles(c) THEN "delivered" ELSE s.resp[c]],
                !.outcome = [c \in Ids |-> IF settles(c)
                                           THEN (IF failed(c) THEN "rejected" ELSE "fulfilled")
                                           ELSE s.outcome[c]]]

\* Mutant: finish() leaves the entry of callsJustBlocked to its expiry.
finishKeepsJustBlocked(s, c) ==
  LET thisCall == s.handle[c]
  IN  IF thisCall \notin s.blockingCalls THEN s
      ELSE LET d == [s EXCEPT !.blockingCalls = @ \ {thisCall}]
           IN  IF d.blockingCalls = {} THEN Enqueue(d, Job("processSQ", 0, afterAll)) ELSE d

\* finish() of the blockFor of call c, run when its promise has settled.
finish(s, c) ==
  LET thisCall == s.handle[c]
  IN  IF thisCall \notin s.blockingCalls THEN s
      ELSE LET d == [s EXCEPT !.blockingCalls = @ \ {thisCall},
                              !.callsJustBlocked = mapDelete(@, thisCall)]
           IN  IF d.blockingCalls = {} THEN Enqueue(d, Job("processSQ", 0, afterAll)) ELSE d

\* blocking(target)(...args): blockFor(target.apply(this, args)).
blockingSQ(s, c) == blockFor([s EXCEPT !.op[c] = "pending", !.ran[c] = @ + 1], c)

\* The promise of the storage.get of call c has resolved: the continuation of
\* blockFor's await is a job, and after it the continuation of the body.
getSettledSQ(s, c) ==
  Enqueue(Enqueue([s EXCEPT !.op[c + 1] = "fulfilled"], Job("finish", c + 1, 0)),
          Job("resume", c, Hops))

\* Storage.get('counter') through @blocking.
storageGetSQ(s, c) ==
  LET g == blockingSQ([s EXCEPT !.got[c] = s.cache], c + 1)
  IN  IF s.cache # 0 THEN getSettledSQ(g, c) ELSE g

\* Storage.put('counter', value) through @blocking.
storagePutSQ(s, c, value) == blockingSQ([s EXCEPT !.cache = value], c + 2)

\* getUniqueNumber() after its await, with i suspensions left.
getUniqueNumberResumeSQ(s, c, i) ==
  IF i > 1 THEN Enqueue(s, Job("resume", c, i - 1))
  ELSE LET v == s.got[c] + 1
           p == storagePutSQ([s EXCEPT !.val[c] = v], c, v)
       IN  Enqueue([p EXCEPT !.op[c] = "fulfilled"], Job("outputGate", c, 0))

\* target.apply(this, args) of a blockable call.
targetApplySQ(s, c) ==
  LET r == [s EXCEPT !.ran[c] = @ + 1]
  IN  CASE s.mode[c] = "throws" -> [r EXCEPT !.op[c] = "threw"]
        [] s.mode[c] = "blocks" -> blockingSQ([r EXCEPT !.op[c] = "pending"], c + 1)
        [] s.mode[c] = "counter" -> storageGetSQ([r EXCEPT !.op[c] = "pending"], c)
        [] OTHER -> [r EXCEPT !.op[c] = "pending"]

\* blockable(target)(...args); a throw of target reaches the caller at once.
blockableSQ(s, c) ==
  IF s.blockingCalls = {}
  THEN LET a == targetApplySQ(s, c)
       IN  IF a.op[c] = "threw" THEN Deliver(a, c) ELSE [a EXCEPT !.resp[c] = "pending"]
  ELSE [s EXCEPT !.deferred = Append(@, [t |-> "call", c |-> c]), !.viaQueue[c] = TRUE]

\* outputGate(result), the then-callback of a blockable call's promise.
outputGate(s, c) ==
  IF s.callsJustBlocked # {}
  THEN LET promises == {e[2] : e \in s.callsJustBlocked}
           calls == {e[1] : e \in s.callsJustBlocked}
           g == [s EXCEPT !.blockingCalls = @ \ calls,
                          !.callsJustBlocked = {},
                          !.waiting[c] = promises,
                          !.resp[c] = "gated"]
       IN  promiseAll(Enqueue(g, Job("processSQ", 0, afterAll)))
  ELSE DeliverAs(s, c, "fulfilled")

\* onFulfilled(result)
onFulfilled(s, c) ==
  IF s.blockingCalls # {}
  THEN [s EXCEPT !.deferred = Append(@, [t |-> "response", c |-> c]),
                 !.resp[c] = "queued", !.respQueued[c] = TRUE]
  ELSE DeliverAs(s, c, "fulfilled")

\* onRejected(reason)
onRejected(s, c) ==
  IF s.blockingCalls # {}
  THEN [s EXCEPT !.deferred = Append(@, [t |-> "response", c |-> c]),
                 !.resp[c] = "queued", !.respQueued[c] = TRUE]
  ELSE DeliverAs(s, c, "rejected")

\* deferResponse(promise): promise.then(onFulfilled, onRejected), run when the
\* promise has settled.
deferResponse(s, c) == IF s.op[c] = "fulfilled" THEN onFulfilled(s, c) ELSE onRejected(s, c)

\* blockableResponse(target)(...args): deferResponse(target.apply(this, args)).
blockableResponseSQ(s, c) ==
  [s EXCEPT !.op[c] = "pending", !.ran[c] = @ + 1, !.resp[c] = "pending"]

\* process(): while (!blockingCalls.size && deferred.length) deferred.shift()!();
\* a thunk that throws ends the loop.
RECURSIVE processSQ(_)
processSQ(s) ==
  IF s.blockingCalls = {} /\ s.deferred # <<>>
  THEN LET item == Head(s.deferred)
           s1 == [s EXCEPT !.deferred = Tail(@)]
       IN  IF item.t = "response" THEN processSQ(Deliver(s1, item.c))
           ELSE LET a == targetApplySQ(s1, item.c)
                IN  IF a.op[item.c] = "threw" THEN a
                    ELSE processSQ([a EXCEPT !.resp[item.c] = "pending"])
  ELSE s

\* afterAll().then(process), resumed with i suspensions of afterAll left.
afterAllThenProcess(s, i) ==
  IF i > 1 THEN Enqueue(s, Job("processSQ", 0, i - 1)) ELSE processSQ(s)

\* reset()
resetSQ(s) ==
  [s EXCEPT !.blockingCalls = {}, !.callsJustBlocked = {}, !.deferred = <<>>,
            !.call = 0, !.resets = @ + 1]

\* ---------------------------------------------------------------- actions

Init == Holds(NewCoordinator) /\ second = NewCoordinator /\ order = <<>>

\* A step of the callers' code: in the turn that is running, in a new task, or
\* in a microtask of theirs between two jobs of the coordinator.
Caller(s) ==
  /\ inTurn \/ microtasks = <<>> \/ interleaved < MaxInterleaved
  /\ Commit(MarkStale([s EXCEPT !.inTurn = (s.microtasks # <<>>),
                                !.interleaved = IF inTurn \/ microtasks = <<>> THEN @ ELSE @ + 1]))

\* A job of the coordinator: the callers' turn is over.
Coordinator(s) == Commit(MarkStale([s EXCEPT !.inTurn = FALSE]))

\* Bodies in progress: the calls that can start a blocking operation.
InProgress == {c \in 1..n : op[c] = "pending" /\ kind[c] \in {"blockable", "blocking"}}

\* A call of a blocking-wrapped function, from the body of call p or (p = 0)
\* from other code.
CallBlocking ==
  /\ n < MaxCalls
  /\ \E p \in {0} \cup InProgress :
       Caller(blocking(NewCall(State, n + 1, "blocking", "async", p), n + 1))

\* A blockable call and, for a target that starts a blocking operation before
\* its first await, that operation: it takes the next id.
NewBlockable(s, m) ==
  LET c == s.n + 1
      s0 == NewCall(s, c, "blockable", m, 0)
  IN  IF m = "blocks" THEN [NewCall(s0, c + 1, "blocking", "async", c) EXCEPT !.n = c + 1]
      ELSE s0

\* A call of a blockable-wrapped function.
CallBlockable ==
  \E m \in Modes :
    /\ n + (IF m = "blocks" THEN 2 ELSE 1) <= MaxCalls
    /\ Caller(blockable(NewBlockable(State, m), n + 1))

\* A call of a blockableResponse-wrapped function.
CallBlockableResponse ==
  /\ n < MaxCalls
  /\ Caller(blockableResponse(NewCall(State, n + 1, "blockableResponse", "async", 0), n + 1))

\* The operations that have failed.
Failed == {c \in 1..n : op[c] = "rejected"}

\* History: the blocking calls a blockable call made that are pending now.
StillInProgress(c) ==
  {b \in 1..n : parent[b] = c /\ kind[c] = "blockable" /\ kind[b] = "blocking" /\ op[b] = "pending"}

\* The promise of an operation settles; its reactions become jobs.
Settle ==
  \E c \in 1..n, ok \in BOOLEAN :
    /\ op[c] = "pending"
    /\ ok \/ Cardinality(Failed) < MaxFailures
    /\ LET s == [State EXCEPT !.op[c] = IF ok THEN "fulfilled" ELSE "rejected",
                              !.inProgressAtReturn[c] = StillInProgress(c)]
       IN  Caller(Enqueue(s, Job(IF kind[c] = "blocking" THEN "unblock" ELSE "gate", c, 0)))

\* The first job of the microtask queue runs.
RunMicrotask ==
  /\ microtasks # <<>>
  /\ LET j == Head(microtasks)
         s == [State EXCEPT !.microtasks = Tail(@)]
     IN  Coordinator(CASE j.t = "unblock" -> blockWhileFinally(s, j.c)
                  [] j.t = "gate" -> blockResponseFinally(s, j.c)
                  [] OTHER -> processStep(s, j))

Reset ==
  /\ resets < MaxResets
  /\ Caller(reset(State))

Next ==
  \/ CallBlocking
  \/ CallBlockable
  \/ CallBlockableResponse
  \/ Settle
  \/ RunMicrotask
  \/ Reset

Spec == Init /\ [][Next]_vars

\* The same callers administering the single-queue coordinator.

SQCallBlocking ==
  /\ n < MaxCalls
  /\ \E p \in {0} \cup InProgress :
       Caller(blockingSQ(NewCall(State, n + 1, "blocking", "async", p), n + 1))

SQCallBlockable ==
  \E m \in Modes :
    /\ n + (IF m = "blocks" THEN 2 ELSE 1) <= MaxCalls
    /\ Caller(blockableSQ(NewBlockable(State, m), n + 1))

SQCallBlockableResponse ==
  /\ n < MaxCalls
  /\ Caller(blockableResponseSQ(NewCall(State, n + 1, "blockableResponse", "async", 0), n + 1))

\* The reaction to the settlement of the promise of call c: the continuation
\* of blockFor's await, then(outputGate) or then(onFulfilled, onRejected).
Reaction(c, ok) ==
  CASE kind[c] = "blocking" -> "finish"
    [] kind[c] = "blockable" -> IF ok THEN "outputGate" ELSE "passRejection"
    [] OTHER -> "deferResponse"

SQSettle ==
  \E c \in 1..n, ok \in BOOLEAN :
    /\ op[c] = "pending"
    /\ ok \/ Cardinality(Failed) < MaxFailures
    /\ LET s == [State EXCEPT !.op[c] = IF ok THEN "fulfilled" ELSE "rejected",
                              !.inProgressAtReturn[c] = StillInProgress(c)]
       IN  Caller(Enqueue(s, Job(Reaction(c, ok), c, 0)))

SQRunMicrotask ==
  /\ microtasks # <<>>
  /\ LET j == Head(microtasks)
         s == [State EXCEPT !.microtasks = Tail(@)]
     IN  Coordinator(CASE j.t = "finish" -> promiseAll(finish(s, j.c))
                  [] j.t = "outputGate" -> outputGate(s, j.c)
                  [] j.t = "passRejection" -> DeliverAs(s, j.c, "rejected")
                  [] j.t = "deferResponse" -> deferResponse(s, j.c)
                  [] j.t = "expire" -> expire(s, j.c, j.i)
                  [] OTHER -> afterAllThenProcess(s, j.i))

SQReset ==
  /\ resets < MaxResets
  /\ Caller(resetSQ(State))

NextSQ ==
  \/ SQCallBlocking
  \/ SQCallBlockable
  \/ SQCallBlockableResponse
  \/ SQSettle
  \/ SQRunMicrotask
  \/ SQReset

SpecSQ == Init /\ [][NextSQ]_vars

\* The counter scenario (concurrency.spec.ts): N calls of getUniqueNumber made
\* back-to-back in one turn, then only timers and jobs.

NewGetUniqueNumber(s) ==
  LET c == s.n + 1
      s0 == NewCall(s, c, "blockable", "counter", 0)
      s1 == NewCall(s0, c + 1, "blocking", "async", c)
  IN  [NewCall(s1, c + 2, "blocking", "async", c) EXCEPT !.inTurn = TRUE]

\* controller.getUniqueNumber(), in the turn of the calls before it.
CallGetUniqueNumber ==
  /\ n + 3 <= 3 * MaxN
  /\ n = 0 \/ inTurn
  /\ Commit(MarkStale(blockable(NewGetUniqueNumber(State), n + 1)))

\* A timer of Storage fires (a task: no job is pending) and resolves the
\* promise of a get or a put.
TimerFires ==
  \E b \in 1..n :
    /\ microtasks = <<>>
    /\ kind[b] = "blocking" /\ op[b] = "pending"
    /\ Coordinator(IF b = parent[b] + 1 THEN getSettled(State, parent[b])
                   ELSE Enqueue([State EXCEPT !.op[b] = "fulfilled"], Job("unblock", b, 0)))

CounterRunMicrotask ==
  /\ microtasks # <<>>
  /\ LET j == Head(microtasks)
         s == [State EXCEPT !.microtasks = Tail(@)]
     IN  Coordinator(CASE j.t = "unblock" -> blockWhileFinally(s, j.c)
                  [] j.t = "gate" -> blockResponseFinally(s, j.c)
                  [] j.t = "resume" -> getUniqueNumberResume(s, j.c, j.i)
                  [] OTHER -> processStep(s, j))

NextCounter ==
  \/ CallGetUniqueNumber
  \/ TimerFires
  \/ CounterRunMicrotask

SpecCounter == Init /\ [][NextCounter]_vars

SQCallGetUniqueNumber ==
  /\ n + 3 <= 3 * MaxN
  /\ n = 0 \/ inTurn
  /\ Commit(blockableSQ(NewGetUniqueNumber(State), n + 1))

SQTimerFires ==
  \E b \in 1..n :
    /\ microtasks = <<>>
    /\ kind[b] = "blocking" /\ op[b] = "pending"
    /\ Coordinator(IF b = parent[b] + 1 THEN getSettledSQ(State, parent[b])
                   ELSE Enqueue([State EXCEPT !.op[b] = "fulfilled"], Job("finish", b, 0)))

SQCounterRunMicrotask ==
  /\ microtasks # <<>>
  /\ LET j == Head(microtasks)
         s == [State EXCEPT !.microtasks = Tail(@)]
     IN  Coordinator(CASE j.t = "finish" -> promiseAll(finish(s, j.c))
                  [] j.t = "outputGate" -> outputGate(s, j.c)
                  [] j.t = "expire" -> expire(s, j.c, j.i)
                  [] j.t = "resume" -> getUniqueNumberResumeSQ(s, j.c, j.i)
                  [] OTHER -> afterAllThenProcess(s, j.i))

NextCounterSQ ==
  \/ SQCallGetUniqueNumber
  \/ SQTimerFires
  \/ SQCounterRunMicrotask

SpecCounterSQ == Init /\ [][NextCounterSQ]_vars

\* The scenario "should defer calls when blocked" (concurrency.spec.ts): a
\* blockable function whose body starts a blocking operation before its first
\* await is called twice in immediate succession with the active set empty;
\* before that, other code may have started a blocking operation.

TwiceOther ==
  /\ n = 0
  /\ Caller(blocking(NewCall(State, 1, "blocking", "async", 0), 1))

\* blockableFunction(); blockableFunction();
TwiceCalls ==
  /\ \A c \in 1..n : kind[c] # "blockable"
  /\ blockingCalls = {}
  /\ LET first == blockable(NewBlockable(State, "blocks"), n + 1)
     IN  Caller(blockable(NewBlockable(first, "blocks"), n + 3))

NextTwice ==
  \/ TwiceOther
  \/ TwiceCalls
  \/ Settle
  \/ RunMicrotask

SpecTwice == Init /\ [][NextTwice]_vars

\* The scenario of the note in README's Storage.get: a blocking-wrapped
\* function whose body calls a blockableResponse-wrapped function (call c + 1)
\* and awaits it before it returns; its promise settles only once that call
\* has been delivered to it. The other callers act as in Spec.

\* target.apply(this, args) of such a function, on the two-queue coordinator:
\* the body runs up to its await, the inner call being made on the way.
getAwaitingFetch(s, c) ==
  blockableResponse(NewCall([s EXCEPT !.op[c] = "pending", !.ran[c] = @ + 1],
                            c + 1, "blockableResponse", "async", c), c + 1)

\* blocking(target)(...args): blockWhile(target.apply(this, args)).
blockingFetch(s, c) == blockWhile(getAwaitingFetch(s, c), c)

\* The bodies whose await was satisfied by the job that led from s to r go on
\* in jobs of their own ("getResume").
RECURSIVE wake(_, _)
wake(r, woken) ==
  IF woken = {} THEN r
  ELSE LET c == CHOOSE x \in woken : \A y \in woken : x <= y
       IN  wake(Enqueue(r, Job("getResume", c, 0)), woken \ {c})

awaitedFetchDelivered(s, r) ==
  wake(r, {c \in 1..r.n : /\ r.mode[c] = "awaitsFetch"
                          /\ s.resp[c + 1] # "delivered"
                          /\ r.resp[c + 1] = "delivered"})

\* The body goes on after its await and returns, or throws what the await
\* threw: the promise target.apply returned settles, and the reaction job of
\* the coordinator's wrapper is queued.
getResume(s, c, reaction) ==
  Enqueue([s EXCEPT !.op[c] = IF s.outcome[c + 1] = "fulfilled" THEN "fulfilled" ELSE "rejected"],
          Job(reaction, c, 0))

CallGet ==
  /\ n + 2 <= MaxCalls
  /\ Caller(blockingFetch(NewCall(State, n + 1, "blocking", "awaitsFetch", 0), n + 1))

\* The promise of an operation settles, other than one that awaits a fetch.
FetchSettle ==
  \E c \in 1..n, ok \in BOOLEAN :
    /\ op[c] = "pending"
    /\ mode[c] # "awaitsFetch"
    /\ ok \/ Cardinality(Failed) < MaxFailures
    /\ LET s == [State EXCEPT !.op[c] = IF ok THEN "fulfilled" ELSE "rejected",
                              !.inProgressAtReturn[c] = StillInProgress(c)]
       IN  Caller(Enqueue(s, Job(IF kind[c] = "blocking" THEN "unblock" ELSE "gate", c, 0)))

FetchRunMicrotask ==
  /\ microtasks # <<>>
  /\ LET j == Head(microtasks)
         s == [State EXCEPT !.microtasks = Tail(@)]
     IN  Coordinator(awaitedFetchDelivered(s,
           CASE j.t = "unblock" -> blockWhileFinally(s, j.c)
             [] j.t = "gate" -> blockResponseFinally(s, j.c)
             [] j.t = "getResume" -> getResume(s, j.c, "unblock")
             [] OTHER -> processStep(s, j)))

NextFetch ==
  \/ CallGet
  \/ CallBlocking
  \/ CallBlockable
  \/ FetchSettle
  \/ FetchRunMicrotask
  \/ Reset

SpecFetch == Init /\ [][NextFetch]_vars

\* The same scenario on the single-queue coordinator.

getAwaitingFetchSQ(s, c) ==
  blockableResponseSQ(NewCall([s EXCEPT !.op[c] = "pending", !.ran[c] = @ + 1],
                              c + 1, "blockableResponse", "async", c), c + 1)

\* blocking(target)(...args): blockFor(target.apply(this, args)).
blockingFetchSQ(s, c) == blockFor(getAwaitingFetchSQ(s, c), c)

SQCallGet ==
  /\ n + 2 <= MaxCalls
  /\ Caller(blockingFetchSQ(NewCall(State, n + 1, "blocking", "awaitsFetch", 0), n + 1))

SQFetchSettle ==
  \E c \in 1..n, ok \in BOOLEAN :
    /\ op[c] = "pending"
    /\ mode[c] # "awaitsFetch"
    /\ ok \/ Cardinality(Failed) < MaxFailures
    /\ LET s == [State EXCEPT !.op[c] = IF ok THEN "fulfilled" ELSE "rejected",
                              !.inProgressAtReturn[c] = StillInProgress(c)]
       IN  Caller(Enqueue(s, Job(Reaction(c, ok), c, 0)))

SQFetchRunMicrotask ==
  /\ microtasks # <<>>
  /\ LET j == Head(microtasks)
         s == [State EXCEPT !.microtasks = Tail(@)]
     IN  Coordinator(awaitedFetchDelivered(s,
           CASE j.t = "finish" -> promiseAll(finish(s, j.c))
             [] j.t = "outputGate" -> outputGate(s, j.c)
             [] j.t = "passRejection" -> DeliverAs(s, j.c, "rejected")
             [] j.t = "deferResponse" -> deferResponse(s, j.c)
             [] j.t = "expire" -> expire(s, j.c, j.i)
             [] j.t = "getResume" -> getResume(s, j.c, "finish")
             [] OTHER -> afterAllThenProcess(s, j.i)))

NextFetchSQ ==
  \/ SQCallGet
  \/ SQCallBlocking
  \/ SQCallBlockable
  \/ SQFetchSettle
  \/ SQFetchRunMicrotask
  \/ SQReset

SpecFetchSQ == Init /\ [][NextFetchSQ]_vars

\* Two coordinators made by two calls of simplifiedConcurrency(), each with
\* callers of its own; the jobs of both are in the one microtask queue of the
\* engine. The first coordinator is the state above, the second is `second`.

TwoCalls == 2

Instance(k) == IF k = 1 THEN State ELSE second

\* Mutant: blockingCalls is a module-level set shared by the coordinators.
closureOverModuleState(s, o) == [s EXCEPT !.blockingCalls = @ \cup o.blockingCalls]

\* The state the wrappers of a coordinator close over: the constants of its
\* own call of the factory (s), nothing of the other coordinator (o).
closure(s, o) == s

Own(k) == closure(Instance(k), Instance(3 - k))

\* The jobs a step of coordinator k queued (from s to r) are behind the jobs
\* already pending.
QueuedBehind(q, k, s, r) ==
  q \o [x \in 1..(Len(r.microtasks) - Len(s.microtasks)) |-> k]

TwoCommit(k, r, q) ==
  /\ order' = q
  /\ IF k = 1 THEN CommitInstance(r) /\ second' = second
     ELSE second' = r /\ UNCHANGED instanceVars

\* A call of a wrapped function of coordinator k.
TwoCall ==
  \E k \in {1, 2}, w \in Kinds :
    LET s == Own(k)
        c == s.n + 1
        s0 == NewCall(s, c, w, "async", 0)
        r == CASE w = "blocking" -> blocking(s0, c)
               [] w = "blockable" -> blockable(s0, c)
               [] OTHER -> blockableResponse(s0, c)
    IN  /\ s.n < TwoCalls
        /\ TwoCommit(k, r, QueuedBehind(order, k, s, r))

\* The promise of an operation begun through coordinator k is fulfilled.
TwoSettle ==
  \E k \in {1, 2} :
    LET s == Own(k)
    IN  \E c \in 1..s.n :
          /\ s.op[c] = "pending"
          /\ LET r == Enqueue([s EXCEPT !.op[c] = "fulfilled"],
                              Job(IF s.kind[c] = "blocking" THEN "unblock" ELSE "gate", c, 0))
             IN  TwoCommit(k, r, QueuedBehind(order, k, s, r))

\* The first job of the microtask queue runs.
TwoRunMicrotask ==
  /\ order # <<>>
  /\ LET k == Head(order)
         j == Head(Own(k).microtasks)
         s == [Own(k) EXCEPT !.microtasks = Tail(@)]
         r == CASE j.t = "unblock" -> blockWhileFinally(s, j.c)
                [] j.t = "gate" -> blockResponseFinally(s, j.c)
                [] OTHER -> processStep(s, j)
     IN  TwoCommit(k, r, QueuedBehind(Tail(order), k, s, r))

NextTwo ==
  \/ TwoCall
  \/ TwoSettle
  \/ TwoRunMicrotask

SpecTwo == Init /\ [][NextTwo]_vars

\* The same with two coordinators of src/concurrency.ts, the calls made on
\* both being TwoCallsSQ at most.
TwoCallsSQ == 2

SQTwoCall ==
  \E k \in {1, 2}, w \in Kinds :
    LET s == Own(k)
        c == s.n + 1
        s0 == NewCall(s, c, w, "async", 0)
        r == CASE w = "blocking" -> blockingSQ(s0, c)
               [] w = "blockable" -> blockableSQ(s0, c)
               [] OTHER -> blockableResponseSQ(s0, c)
    IN  /\ s.n < TwoCalls
        /\ n + second.n < TwoCallsSQ
        /\ TwoCommit(k, r, QueuedBehind(order, k, s, r))

SQTwoSettle ==
  \E k \in {1, 2} :
    LET s == Own(k)
    IN  \E c \in 1..s.n :
          /\ s.op[c] = "pending"
          /\ LET r == Enqueue([s EXCEPT !.op[c] = "fulfilled"],
                              Job(CASE s.kind[c] = "blocking" -> "finish"
                                    [] s.kind[c] = "blockable" -> "outputGate"
                                    [] OTHER -> "deferResponse", c, 0))
             IN  TwoCommit(k, r, QueuedBehind(order, k, s, r))

SQTwoRunMicrotask ==
  /\ order # <<>>
  /\ LET k == Head(order)
         j == Head(Own(k).microtasks)
         s == [Own(k) EXCEPT !.microtasks = Tail(@)]
         r == CASE j.t = "finish" -> promiseAll(finish(s, j.c))
                [] j.t = "outputGate" -> outputGate(s, j.c)
                [] j.t = "deferResponse" -> deferResponse(s, j.c)
                [] j.t = "expire" -> expire(s, j.c, j.i)
                [] OTHER -> afterAllThenProcess(s, j.i)
     IN  TwoCommit(k, r, QueuedBehind(Tail(order), k, s, r))

NextTwoSQ ==
  \/ SQTwoCall
  \/ SQTwoSettle
  \/ SQTwoRunMicrotask

SpecTwoSQ == Init /\ [][NextTwoSQ]_vars

\* ------------------------------------------------------------ properties

Range(q) == {q[i] : i \in 1..Len(q)}

\* In this step the target of call c is invoked.
Started(c) == ran'[c] > ran[c]

\* In this step the caller of call c gets its result.
DeliveredNow(c) == resp[c] # "delivered" /\ resp'[c] = "delivered"

\* The blocking operations call c started, and those they started in turn.
RECURSIVE StartedBy(_, _)
StartedBy(c, k) ==
  IF k = 0 THEN {}
  ELSE LET direct == {b \in 1..n : parent[b] = c /\ kind[b] = "blocking"}
       IN  direct \cup UNION {StartedBy(b, k - 1) : b \in direct}

Descendants(c) == StartedBy(c, MaxCalls)

\* The handle of blocking call b in blockingCalls: the promise itself in
\* part_001, thisCall in concurrency.ts.
HandleOf(b) == IF handle[b] = 0 THEN b ELSE handle[b]

InActiveSet(b) == HandleOf(b) \in blockingCalls

\* The calls whose result is queued as a deferred response.
QueuedResponses ==
  Range(deferredResponses) \cup {deferred[i].c : i \in {k \in 1..Len(deferred) : deferred[k].t = "response"}}

\* Nothing is left to happen: no job is pending and no operation is unsettled.
Quiescent == microtasks = <<>> /\ \A c \in 1..n : op[c] # "pending"

\* C1: while the active set is non-empty, no deferred invocation begins
\* executing and no deferred response is delivered: a step that invokes the
\* target of a queued call, or delivers a queued result, starts with
\* blockingCalls empty.
C1_NoDrainWhileBlocked ==
  [][\A c \in Ids :
       ((viaQueue[c] /\ Started(c)) \/ (resp[c] = "queued" /\ DeliveredNow(c)))
         => blockingCalls = {}]_vars

\* C1 witness: the test after a settlement barrier is about to run with a
\* deferred task queued and the active set non-empty again.
C1_Witness ==
  /\ blockingCalls # {}
  /\ deferredBlocks # <<>>
  /\ microtasks # <<>>
  /\ Head(microtasks).t = "processStale"
  /\ Head(microtasks).i = 1

\* C2 (even without reset()): when a blockable call delivers its result, every
\* blocking operation it started, directly or through those, has settled.
C2_ResultWaitsForOwnBlocking ==
  [][\A c \in Ids :
       (kind[c] = "blockable" /\ DeliveredNow(c) /\ resets' = 0) =>
         \A b \in Descendants(c) : op'[b] # "pending"]_vars

\* C2, for results that are successes: when a blockable call delivers a
\* fulfilled result with no reset(), every blocking operation it started has
\* settled.
C2_FulfilledResultWaits ==
  [][\A c \in Ids :
       (kind[c] = "blockable" /\ DeliveredNow(c) /\ resets' = 0 /\ outcome'[c] = "fulfilled") =>
         \A b \in Descendants(c) : op'[b] # "pending"]_vars

\* The calls of getUniqueNumber made so far.
CounterCalls == {c \in 1..n : mode[c] = "counter"}

\* C3: of the back-to-back calls of getUniqueNumber no two read the same
\* value of the counter and no two return the same value; once all have
\* returned and every operation has settled, the counter is their number.
C3_CounterCallsDistinct ==
  /\ \A c, d \in CounterCalls :
       c # d =>
         /\ (ran[c] = 1 /\ ran[d] = 1) => got[c] # got[d]
         /\ (val[c] # 0 /\ val[d] # 0) => val[c] # val[d]
  /\ (Quiescent /\ \A c \in CounterCalls : resp[c] = "delivered") =>
       /\ cache = Cardinality(CounterCalls)
       /\ \A c \in CounterCalls : outcome[c] = "fulfilled" /\ val[c] # 0

\* C3 witness: three calls were made back-to-back, two of them deferred, and
\* all have returned.
C3_Witness ==
  /\ Cardinality(CounterCalls) >= 3
  /\ Cardinality({c \in CounterCalls : viaQueue[c]}) >= 2
  /\ Quiescent
  /\ \A c \in CounterCalls : resp[c] = "delivered"

\* C4: with no reset(), once every operation has settled and no job is
\* pending, every deferred blockable call has been executed exactly once and
\* its placeholder has settled.
C4_DeferredCallNeverLost ==
  (Quiescent /\ resets = 0) =>
    \A c \in 1..n : viaQueue[c] => (ran[c] = 1 /\ resp[c] = "delivered")

\* C4, the part that holds: no target is invoked twice.
C4_AtMostOnce == \A c \in 1..n : ran[c] <= 1

\* C4 for targets that do not throw when invoked.
C4_NeverLostUnlessThrown ==
  (Quiescent /\ resets = 0 /\ \A d \in 1..n : mode[d] # "throws") =>
    \A c \in 1..n : viaQueue[c] => (ran[c] = 1 /\ resp[c] = "delivered")

\* C5: deferred invocations begin executing in the order their calls were
\* issued: when the target of a queued call c is invoked, no queued call issued
\* before c is still waiting and no queued call issued after c has run.
C5_InvocationFifo ==
  [][\A c \in Ids :
       (viaQueue[c] /\ Started(c)) =>
         /\ \A d \in Range(deferredBlocks') : d > c
         /\ \A d \in Ids : (d > c /\ viaQueue[d]) => ran[d] = 0]_vars

\* C5 witness: two calls were deferred and both have run from the queue.
C5_Witness ==
  \E c, d \in Ids : c < d /\ viaQueue[c] /\ viaQueue[d] /\ ran[c] = 1 /\ ran[d] = 1

\* C6: no deferred invocation begins executing while a deferred response is queued.
C6_ResponsesDrainFirst ==
  [][\A c \in Ids : (viaQueue[c] /\ Started(c)) => QueuedResponses = {}]_vars

\* C7 (with no reset()): the handle of a blocking call is in the active set
\* for as long as its operation is pending.
C7_HandleHeldWhilePending ==
  resets = 0 =>
    \A b \in 1..n : (kind[b] = "blocking" /\ op[b] = "pending") => InActiveSet(b)

\* C7, removal: a handle leaves the active set only in a step after its
\* operation settled (or by reset()), and having left it never returns.
C7_RemovedOnceAtSettlement ==
  [][\A b \in Ids :
       /\ (kind[b] = "blocking" /\ b \in blockingCalls /\ b \notin blockingCalls')
            => (op[b] \in {"fulfilled", "rejected"} \/ resets' > resets)
       /\ (kind[b] = "blocking" /\ ran[b] = 1 /\ b \notin blockingCalls)
            => b \notin blockingCalls']_vars

\* C8: a blockableResponse call starts its operation at call time in every
\* gate state and is never on the invocation queue.
C8_ResponseStartsAtOnce ==
  \A c \in 1..n :
    kind[c] = "blockableResponse" =>
      /\ ran[c] = 1
      /\ op[c] \in {"pending", "fulfilled", "rejected"}
      /\ ~viaQueue[c]
      /\ c \notin Range(deferredBlocks)

\* C8 witness: a blockableResponse call made while a blocking operation was
\* outstanding and an invocation was queued; its operation ran and only its
\* result waits.
C8_Witness ==
  \E c \in 1..n, b \in 1..n :
    /\ kind[c] = "blockableResponse" /\ b < c
    /\ kind[b] = "blocking" /\ op[b] = "pending" /\ b \in blockingCalls
    /\ resets = 0
    /\ deferredBlocks # <<>>
    /\ ran[c] = 1 /\ resp[c] = "queued"

\* C9: when the settlement of a blockable call's operation is handled with the
\* active set non-empty, the result is queued as a deferred response; and the
\* result of an operation that returned a promise is only delivered in a step
\* that starts with the active set empty.
C9_BlockableResultGated ==
  [][\A c \in Ids :
       kind[c] = "blockable" =>
         /\ (resp[c] = "pending" /\ resp'[c] # "pending" /\ blockingCalls # {})
              => (resp'[c] = "queued" /\ c \in QueuedResponses')
         /\ (DeliveredNow(c) /\ op[c] # "threw" /\ op'[c] # "threw") => blockingCalls = {}]_vars

\* C10 as stated: while the body of a blockable call is in progress, every
\* handle of the active set is of an operation the call itself started.
C10_NoForeignBlockingWhileRunning ==
  \A c \in 1..n :
    (kind[c] = "blockable" /\ op[c] = "pending") => blockingCalls \subseteq Descendants(c)

\* C10 amended: the body of a blockable call never begins while the active
\* set is non-empty.
C10_BodyBeginsUnblocked ==
  [][\A c \in Ids : (kind'[c] = "blockable" /\ Started(c)) => blockingCalls = {}]_vars

\* C10 witness: a blockable call was deferred behind a blocking operation and
\* its body has since begun.
C10_Witness ==
  \E c \in 1..n : kind[c] = "blockable" /\ viaQueue[c] /\ ran[c] = 1 /\ op[c] = "pending"

\* C11: when the first of the back-to-back calls of getUniqueNumber delivers
\* its result, the second call (id 4) has not started its body and the counter
\* is 1; the counter is 2 only once the second call has run.
C11_FirstDeliveredBeforeSecondStarts ==
  [][/\ (DeliveredNow(1) /\ 4 \in CounterCalls) => (ran'[4] = 0 /\ cache' = 1)
     /\ (4 \in CounterCalls /\ cache' >= 2) => val'[4] # 0]_vars

\* C11 witness: the first call has its result, the second was deferred and has
\* since run, and the counter is 2.
C11_Witness ==
  /\ 4 \in CounterCalls /\ viaQueue[4]
  /\ resp[1] = "delivered" /\ val[1] = 1
  /\ ran[4] = 1 /\ val[4] = 2 /\ cache = 2

\* The first of the two calls of the scenario SpecTwice (the second is two ids
\* later), in the state a step leads to.
TwiceFirst == IF kind'[1] = "blockable" THEN 1 ELSE 2

\* C12: of two calls in immediate succession of a blockable function whose
\* body starts a blocking operation, made with the active set empty, the first
\* body runs inside the call and the second is queued without running; the
\* second body runs only when the first call's blocking operation has settled
\* and a wait of process() during which the active set stayed empty has ended.
C12_SecondWaitsForBarrier ==
  [][LET x == TwiceFirst
         y == x + 2
     IN  /\ (kind[x] # "blockable" /\ kind'[x] = "blockable") =>
              /\ ran'[x] = 1 /\ ran'[x + 1] = 1 /\ (x + 1) \in blockingCalls'
              /\ ran'[y] = 0 /\ deferredBlocks' = <<y>>
         /\ (kind'[y] = "blockable" /\ Started(y)) =>
              /\ op[x + 1] # "pending" /\ (x + 1) \notin blockingCalls
              /\ microtasks # <<>> /\ Head(microtasks) = Job("process", 0, 1)]_vars

\* C12 on a coordinator where no blocking operation came before the two calls.
C12_SecondWaitsWhenFirstCalls ==
  [][(kind'[1] = "blockable" /\ kind'[3] = "blockable" /\ Started(3)) =>
       /\ op[2] # "pending" /\ 2 \notin blockingCalls
       /\ microtasks # <<>> /\ Head(microtasks) = Job("process", 0, 1)]_vars

\* In this step a deferred task is dequeued and run: a queued invocation
\* begins or a queued response is delivered.
Dequeued == \E c \in Ids : (viaQueue[c] /\ Started(c)) \/ (resp[c] = "queued" /\ DeliveredNow(c))

\* C13 (even without reset()): a deferred task is dequeued only by a process()
\* whose wait of 10 suspensions has just ended and during which the active set
\* was empty throughout.
C13_DequeueAfterEmptyBarrier ==
  [][(Dequeued /\ resets' = 0) =>
       (microtasks # <<>> /\ Head(microtasks) = Job("process", 0, 1))]_vars

\* C13, the part that holds: a deferred task is dequeued only at the end of a
\* wait of 10 suspensions of some process(), with the active set empty then.
C13_DequeueAfterSomeBarrier ==
  [][Dequeued =>
       /\ microtasks # <<>>
       /\ Head(microtasks).t \in {"process", "processStale"} /\ Head(microtasks).i = 1
       /\ blockingCalls = {}]_vars

\* C14: when the settlement of a blockableResponse operation is handled with
\* the active set empty, the caller gets the operation's outcome in that step
\* and no deferral queue changes.
C14_ResponsePassesThrough ==
  [][\A c \in Ids :
       (kind[c] = "blockableResponse" /\ resp[c] = "pending" /\ resp'[c] # "pending"
          /\ blockingCalls = {}) =>
         /\ resp'[c] = "delivered" /\ ~respQueued'[c]
         /\ outcome'[c] = op[c]
         /\ deferredResponses' = deferredResponses
         /\ deferredBlocks' = deferredBlocks
         /\ deferred' = deferred]_vars

\* C14 witness: a blockableResponse result was delivered without having been
\* queued, while a wait of process() was under way.
C14_Witness ==
  \E c \in 1..n :
    /\ kind[c] = "blockableResponse" /\ resp[c] = "delivered" /\ ~respQueued[c]
    /\ \E k \in 1..Len(microtasks) :
         microtasks[k].t = "process" /\ microtasks[k].i > 1 /\ microtasks[k].i < Yields

\* C15: a step of reset() leaves the active set and every deferral queue
\* empty, and a blockable call made with the active set empty (as the next
\* call after reset() is) runs its operation in the call and is not queued.
C15_ResetClearsEverything ==
  [][/\ resets' > resets =>
          /\ blockingCalls' = {} /\ callsJustBlocked' = {}
          /\ deferredBlocks' = <<>> /\ deferredResponses' = <<>> /\ deferred' = <<>>
     /\ \A c \in Ids :
          (kind[c] = "none" /\ kind'[c] = "blockable" /\ blockingCalls = {}) =>
            (ran'[c] = 1 /\ ~viaQueue'[c])]_vars

\* C15 witness: reset() was called with a blocking operation pending and a
\* call queued behind it; the blockable call made after it ran in the call,
\* and the blocking operation is still pending.
C15_Witness ==
  \E b, d, c \in 1..n :
    /\ b < d /\ d < c /\ resets = 1
    /\ kind[b] = "blocking" /\ op[b] = "pending" /\ b \notin blockingCalls
    /\ kind[d] = "blockable" /\ viaQueue[d] /\ ran[d] = 0
    /\ kind[c] = "blockable" /\ ~viaQueue[c] /\ ran[c] = 1

\* This step runs the first job of the microtask queue, and that job is the
\* reaction t to the settlement of call c.
RunsReaction(t, c) ==
  /\ microtasks # <<>> /\ ~inTurn'
  /\ Head(microtasks).t = t /\ Head(microtasks).c = c

\* Every task that was deferred has been executed and delivered.
AllDeferredDone ==
  \A c \in 1..n :
    /\ viaQueue[c] => (ran[c] = 1 /\ resp[c] = "delivered")
    /\ respQueued[c] => resp[c] = "delivered"

FailedFromQueue == {c \in 1..n : viaQueue[c] /\ ran[c] = 1 /\ op[c] \in {"threw", "rejected"}}

\* C17: with no reset(), once everything has settled, the placeholder of every
\* deferred invocation that failed when run from the queue is rejected, and
\* every other deferred task has been executed and delivered.
C17_DeferredFailureRejectsPlaceholder ==
  (Quiescent /\ resets = 0 /\ FailedFromQueue # {}) =>
    /\ \A c \in FailedFromQueue : resp[c] = "delivered" /\ outcome[c] = "rejected"
    /\ AllDeferredDone

\* C17 for targets that fail by returning a promise that is rejected.
C17_RejectedResultRejectsPlaceholder ==
  (Quiescent /\ resets = 0 /\ FailedFromQueue # {} /\ \A d \in 1..n : mode[d] # "throws") =>
    /\ \A c \in FailedFromQueue : resp[c] = "delivered" /\ outcome[c] = "rejected"
    /\ AllDeferredDone

\* C18: the failure of a blockableResponse or blockable operation, handled
\* with the active set non-empty, is queued as a deferred response; a queued
\* failure is delivered with the set empty, and the caller of a failed
\* operation gets a failure; with no reset(), once everything has settled no
\* queued result is left undelivered.
C18_FailureHeldLikeSuccess ==
  [][/\ \A c \in Ids :
          (kind[c] \in {"blockableResponse", "blockable"} /\ op[c] = "rejected") =>
            /\ (resp[c] = "pending" /\ resp'[c] # "pending" /\ blockingCalls # {})
                 => (resp'[c] = "queued" /\ c \in QueuedResponses')
            /\ (resp[c] = "queued" /\ DeliveredNow(c)) => blockingCalls = {}
            /\ DeliveredNow(c) => outcome'[c] = "rejected"
     /\ (Quiescent' /\ resets' = 0) =>
          \A c \in 1..n' : respQueued'[c] => resp'[c] = "delivered"]_vars

\* C19: a blockable call whose promise was fulfilled while a blocking
\* operation it had started was still pending, and whose blocking operation
\* has failed since, does not deliver the returned value: what its caller gets
\* is a failure (the coordinator not having been reset).
C19_StorageErrorIsTheResponse ==
  \A c \in 1..n :
    (resets = 0 /\ kind[c] = "blockable" /\ op[c] = "fulfilled" /\ resp[c] = "delivered"
       /\ \E b \in inProgressAtReturn[c] : op[b] = "rejected")
      => outcome[c] = "rejected"

\* C19 (single-queue coordinator): a blockable call whose output gate waited
\* for a blocking operation that has failed is delivered as a failure.
C19_WaitedForErrorIsTheResponse ==
  \A c \in 1..n :
    (kind[c] = "blockable" /\ op[c] = "fulfilled" /\ resp[c] = "delivered"
       /\ \E b \in waiting[c] : op[b] = "rejected")
      => outcome[c] = "rejected"

\* C20: a blocking operation whose body awaits a blockableResponse call it
\* made never settles, and that call is never delivered to it (the coordinator
\* not having been reset).
C20_AwaitedFetchNeverReturns ==
  \A c \in 1..n :
    (mode[c] = "awaitsFetch" /\ resets = 0)
      => /\ op[c] = "pending"
         /\ resp[c + 1] # "delivered"

\* C20 (the reason): until it settles, the handle of such an operation is in
\* the active set.
C20_OwnHandleBlocksInnerResult ==
  \A c \in 1..n :
    (mode[c] = "awaitsFetch" /\ resets = 0 /\ op[c] = "pending") => InActiveSet(c)

\* C20: the deadlock: the inner result has settled and is deferred, the
\* operation that awaits it is in the active set, and nothing is left to run.
C20_Witness ==
  \E c \in 1..n :
    /\ mode[c] = "awaitsFetch" /\ resets = 0
    /\ op[c] = "pending" /\ InActiveSet(c)
    /\ op[c + 1] \in {"fulfilled", "rejected"} /\ resp[c + 1] = "queued"
    /\ microtasks = <<>>
    /\ \A d \in 1..n : d # c => op[d] # "pending"

\* The blocking-wrapped function of call c is called in this step: by other
\* code or a body in progress, or by the body of a blockable call that begins.
BlockingCalled(c) ==
  /\ kind'[c] = "blocking"
  /\ IF parent'[c] # 0 /\ mode'[parent'[c]] = "blocks" /\ c = parent'[c] + 1
     THEN Started(parent'[c])
     ELSE kind[c] = "none"

\* C21: a blocking call is never deferred: in the step in which it is made
\* its operation is invoked and its handle is in the active set, whatever
\* the active set, the queues and the pending jobs are.
C21_BlockingNeverDeferred ==
  [][\A c \in Ids :
       BlockingCalled(c) =>
         /\ ran'[c] = 1 /\ op'[c] = "pending"
         /\ InActiveSet(c)'
         /\ ~viaQueue'[c]]_vars

\* C21: the last call made is a blocking call that has run and is registered
\* although another handle is in the active set and an invocation is queued.
C21_Witness ==
  /\ n > 0 /\ kind[n] = "blocking" /\ parent[n] = 0
  /\ ran[n] = 1 /\ op[n] = "pending" /\ InActiveSet(n)
  /\ \E b \in 1..(n - 1) : kind[b] = "blocking" /\ op[b] = "pending" /\ InActiveSet(b)
  /\ deferredBlocks # <<>>

\* C21: the last call made is a blocking call that is registered while a
\* settlement barrier is under way with a task queued.
C21_WitnessDuringBarrier ==
  /\ n > 0 /\ kind[n] = "blocking" /\ parent[n] = 0
  /\ ran[n] = 1 /\ op[n] = "pending" /\ InActiveSet(n)
  /\ deferredBlocks # <<>> \/ deferredResponses # <<>>
  /\ \E k \in 1..Len(microtasks) :
       microtasks[k].t \in {"process", "processStale"} /\ microtasks[k].i < Yields

\* The active set and the queues of a coordinator.
SetAndQueues(s) ==
  <<s.blockingCalls, s.deferredBlocks, s.deferredResponses, s.deferred, s.callsJustBlocked>>

\* C22: two coordinators made by the factory do not interact: a step changes
\* the active set and the queues of at most one of them; a blockable call made
\* on a coordinator whose own active set is empty runs in the call, and a
\* result is queued on a coordinator only when its own active set is not
\* empty, whatever is outstanding on the other coordinator.
C22_InstancesNeverInteract ==
  [][/\ SetAndQueues(State)' = SetAndQueues(State) \/ SetAndQueues(second)' = SetAndQueues(second)
     /\ \A k \in {1, 2}, c \in Ids :
          /\ (Instance(k).kind[c] = "none" /\ Instance(k)'.kind[c] = "blockable"
                 /\ Instance(k).blockingCalls = {})
               => Instance(k)'.ran[c] = 1 /\ ~Instance(k)'.viaQueue[c]
          /\ (~Instance(k).respQueued[c] /\ Instance(k)'.respQueued[c])
               => Instance(k).blockingCalls # {}]_vars

\* C22: a blocking operation is outstanding on the first coordinator, and on
\* the second a blockable call has run without being queued and a
\* blockableResponse result has been delivered without being queued.
C22_Witness ==
  /\ \E b \in 1..n : kind[b] = "blocking" /\ op[b] = "pending" /\ b \in blockingCalls
  /\ \A b \in 1..n : kind[b] = "blocking" /\ ran[b] = 1 /\ op[b] = "pending"
  /\ n > 0 /\ second.n = TwoCalls
  /\ \E c \in 1..second.n :
       second.kind[c] = "blockable" /\ second.ran[c] = 1 /\ ~second.viaQueue[c]
  /\ \E c \in 1..second.n :
       /\ second.kind[c] = "blockableResponse"
       /\ second.resp[c] = "delivered" /\ ~second.respQueued[c]

\* The deferred tasks dequeued and run in this step: queued invocations that
\* begin and queued responses that are delivered.
TasksDequeued ==
  {c \in Ids : (viaQueue[c] /\ Started(c)) \/ (resp[c] = "queued" /\ DeliveredNow(c))}

\* C23: two deferred tasks are never dequeued without a settlement barrier
\* between them; in particular no job of the coordinator (one resumption, no
\* suspension in between) dequeues more than one task.
C23_BarrierBetweenTasks ==
  [][Cardinality(TasksDequeued) <= 1]_vars

\* The calls whose result is queued as a deferred response, in queue order.
ResponseQueue ==
  LET q == SelectSeq(deferred, LAMBDA e : e.t = "response")
  IN  deferredResponses \o [k \in 1..Len(q) |-> q[k].c]

\* C24: deferred responses are delivered in the order in which they entered
\* the queue: when a queued response is delivered, every response that was
\* queued ahead of it has been delivered.
C24_ResponseFifo ==
  [][\A k \in 1..Len(ResponseQueue) :
       LET d == ResponseQueue[k]
       IN  (resp[d] = "queued" /\ DeliveredNow(d))
             => \A m \in 1..(k - 1) : resp'[ResponseQueue[m]] = "delivered"]_vars

\* C24: of two responses that were queued, the one queued first has been
\* delivered from the queue and the other is still queued.
C24_Witness ==
  /\ resets = 0
  /\ \E c, d \in 1..n :
       /\ c # d /\ respQueued[c] /\ respQueued[d]
       /\ resp[c] = "delivered" /\ resp[d] = "queued"

\* A drain loop ends in this step: process() is resumed after its barrier and
\* leaves no further barrier of its own behind.
LoopEnds ==
  /\ microtasks # <<>>
  /\ Head(microtasks).t \in {"process", "processStale", "processSQ"}
  /\ Head(microtasks).i = 1
  /\ ~inTurn'
  /\ Len(microtasks') = Len(microtasks) - 1

\* C25: a drain loop ends only with the active set non-empty or with every
\* queue empty.
C25_LoopEndsBlockedOrDrained ==
  [][LoopEnds =>
       \/ blockingCalls' # {}
       \/ deferredResponses' = <<>> /\ deferredBlocks' = <<>> /\ deferred' = <<>>]_vars

\* C25, for targets that do not throw when they are invoked.
C25_LoopEndsUnlessThrown ==
  [][(LoopEnds /\ \A c \in Ids : op'[c] # "threw") =>
       \/ blockingCalls' # {}
       \/ deferredResponses' = <<>> /\ deferredBlocks' = <<>> /\ deferred' = <<>>]_vars

\* The drain processes in progress: each is suspended in its barrier, at one
\* pending job.
DrainProcesses ==
  {k \in 1..Len(microtasks) : microtasks[k].t \in {"process", "processStale", "processSQ"}}

\* C26: at most one drain process is in progress at any time (on a
\* coordinator that has not been reset).
C26_AtMostOneDrain == resets = 0 => Cardinality(DrainProcesses) <= 1

\* C27: no task is stranded: whenever the active set is empty and no drain
\* process is in progress, every queue is empty.
C27_NoTaskStranded ==
  (blockingCalls = {} /\ DrainProcesses = {})
    => deferredResponses = <<>> /\ deferredBlocks = <<>> /\ deferred = <<>>

\* C27, for targets that do not throw when they are invoked.
C27_NoTaskStrandedUnlessThrown ==
  (\A c \in 1..n : op[c] # "threw") => C27_NoTaskStranded

\* C28: the completion of a blocking operation removes its own handle only:
\* in the job that runs at the completion of blocking call b, the handle of
\* another blocking call that is pending stays in the active set.
C28_CompletionRemovesOwnHandleOnly ==
  [][\A b, d \in 1..n :
       (/\ b # d
        /\ RunsReaction("unblock", b) \/ RunsReaction("finish", b)
        /\ kind[d] = "blocking" /\ op[d] = "pending" /\ InActiveSet(d))
         => InActiveSet(d)']_vars

\* C29: every handle recorded in callsJustBlocked is in blockingCalls.
C29_JustBlockedAreBlocking ==
  \A e \in callsJustBlocked : e[1] \in blockingCalls

\* C29: a handle is recorded in callsJustBlocked that reset() has let two
\* blocking calls share, the earlier of them settled.
C29_Witness ==
  /\ resets > 0
  /\ \E b, d \in 1..n :
       /\ b < d /\ handle[b] # 0 /\ handle[b] = handle[d]
       /\ op[b] \in {"fulfilled", "rejected"}
       /\ <<handle[d], d>> \in callsJustBlocked

====
